---- MODULE Spec2Model ----
(***************************************************************************)
(* Model of the signaling server in src/signaling-server.js: the presence *)
(* directory `users`, the session table `activeCallSessions`, the two      *)
(* properties the handlers attach to a socket (socket.role and             *)
(* socket.sessionId) and one action per socket.io event handler.           *)
(*                                                                         *)
(* Node runs the handlers one at a time on its event loop, so every        *)
(* handler is one atomic action.  The fields of an event (from, to, the    *)
(* payload, the role of a register) are supplied by the client and are not *)
(* checked against socket.role anywhere in the source, so the actions draw *)
(* them freely.                                                            *)
(***************************************************************************)
EXTENDS Integers, Sequences, FiniteSets, TLC

\* ------------------------------------------------------------------ bounds
\* Number of socket.io connections accepted over the life of the process.
NumSockets == 2
\* Largest reading of Date.now().  Readings start at 0 and each one equals the
\* reading before it or is one larger; with 0 every call of a run falls in the
\* same millisecond.
MaxClock == 0
\* Largest number of sessions in activeCallSessions at one time.
MaxSessions == 2
\* Largest number of distinct session ids allocated in a run that keeps the
\* history variables (SpecHistory).
MaxAllocated == 1

\* ------------------------------------------------------------------ values
\* socket.id values.  socket.io gives every connection a fresh id; they are
\* numbered here in the order the connections are accepted.
SocketIds == 1..NumSockets
\* `users[x]` of a key that is not set is undefined (falsy in `if (users[to])`).
NoSocket == 0

\* Identities are JavaScript strings, modelled as sequences of characters so
\* that the template literal of line 81 concatenates them as the code does.
Roles == { <<"a">>, <<"a", "_", "a">> }
\* socket.role / socket.sessionId before they are assigned: undefined, which the
\* code only ever tests for truthiness (lines 106, 138, 149, 187, 225).  No role
\* of Roles and no session id is the empty string, the other falsy string.
Undefined == << >>

\* offer / answer / candidate payloads, relayed opaquely.
Payloads == { "sdp1" }
NoPayload == "none"

VARIABLES
    users,              \* line 21: role -> socket id, NoSocket when not set
    activeCallSessions, \* line 29: session id -> [from, to, status]
    socket_role,        \* socket.role of each connection (line 62)
    socket_sessionId,   \* socket.sessionId of each connection (line 83)
    connection,         \* "idle" (not yet accepted), "open", "closed"
    now,                \* the latest reading of Date.now()
    event,              \* the event whose handler ran last
    emitted,            \* what that handler passed to io.to(room).emit, in order
    \* History variables, maintained by SpecHistory only; no handler reads them.
    allocated,          \* the session ids line 81 has produced so far
    connectedIds,       \* the session ids that have had status 'connected'
    repeat              \* the last event is the same event as the one before it

vars == << users, activeCallSessions, socket_role, socket_sessionId,
           connection, now, event, emitted, allocated, connectedIds, repeat >>

\* ------------------------------------------------------------------ helpers
Digit == << "0", "1", "2", "3", "4", "5", "6", "7", "8", "9" >>

\* `${n}` of a non-negative integer: its decimal digits.
RECURSIVE Decimal(_)
Decimal(n) ==
    IF n < 10 THEN << Digit[n + 1] >>
    ELSE Decimal(n \div 10) \o << Digit[(n % 10) + 1] >>

\* line 81: `${from}_${to}_${Date.now()}`
sessionIdOf(from, to, t) == from \o << "_" >> \o to \o << "_" >> \o Decimal(t)

\* io.to(room).emit(name, data): `room` is a socket id, the room socket.io
\* gives every socket; `data` is the object literal of the call.
Emit(room, name, data) == [ room |-> room, name |-> name, data |-> data ]

Event(type, s, role, from, to, data) ==
    [ type |-> type, socket |-> s, role |-> role, from |-> from, to |-> to,
      data |-> data ]

\* `sessionId && activeCallSessions[sessionId]` (lines 106, 138, 149, 187)
hasActiveSession(s) ==
    /\ socket_sessionId[s] # Undefined
    /\ socket_sessionId[s] \in DOMAIN activeCallSessions

\* The table without the keys in `gone` (the `delete` statements).
without(table, gone) == [ id \in (DOMAIN table) \ gone |-> table[id] ]

\* The session ids line 81 can produce within the bounds.
SessionIds ==
    { sessionIdOf(from, to, t) : from \in Roles, to \in Roles, t \in 0..MaxClock }

\* The values the state takes: users (line 21), activeCallSessions (lines 29,
\* 82, 107), socket.role (line 62), socket.sessionId (line 83).
TypeOK ==
    /\ users \in [ Roles -> SocketIds \cup { NoSocket } ]
    /\ DOMAIN activeCallSessions \subseteq SessionIds
    /\ \A id \in DOMAIN activeCallSessions :
          activeCallSessions[id] \in
            [ from : Roles, to : Roles, status : { "calling", "connected" } ]
    /\ socket_role \in [ SocketIds -> Roles \cup { Undefined } ]
    /\ socket_sessionId \in [ SocketIds -> SessionIds \cup { Undefined } ]
    /\ connection \in [ SocketIds -> { "idle", "open", "closed" } ]
    /\ now \in 0..MaxClock

\* ------------------------------------------------------------------ Init
Init ==
    /\ users = [ r \in Roles |-> NoSocket ]
    /\ activeCallSessions = << >>
    /\ socket_role = [ s \in SocketIds |-> Undefined ]
    /\ socket_sessionId = [ s \in SocketIds |-> Undefined ]
    /\ connection = [ s \in SocketIds |-> "idle" ]
    /\ now = 0
    /\ event = Event("start", NoSocket, Undefined, Undefined, Undefined, NoPayload)
    /\ emitted = << >>
    /\ allocated = { }
    /\ connectedIds = { }
    /\ repeat = FALSE

\* ------------------------------------------------------------------ actions
\* io.on('connection'): a new socket is accepted and its handlers installed.
Connection(s) ==
    /\ connection[s] = "idle"
    /\ \A q \in SocketIds : q < s => connection[q] # "idle"
    /\ connection' = [ connection EXCEPT ![s] = "open" ]
    /\ event' = Event("connection", s, Undefined, Undefined, Undefined, NoPayload)
    /\ emitted' = << >>
    /\ UNCHANGED << users, activeCallSessions, socket_role, socket_sessionId, now >>

\* Register that keeps an existing entry: `if (!users[role]) users[role] = ...`.
Register_firstWins(s, role) ==
    /\ connection[s] = "open"
    /\ users' = IF users[role] = NoSocket
                THEN [ users EXCEPT ![role] = s ]
                ELSE users
    /\ socket_role' = [ socket_role EXCEPT ![s] = role ]
    /\ event' = Event("register", s, role, Undefined, Undefined, NoPayload)
    /\ emitted' = << >>
    /\ UNCHANGED << activeCallSessions, socket_sessionId, connection, now >>

\* socket.on('register')
Register(s, role) ==
    /\ connection[s] = "open"
    /\ users' = [ users EXCEPT ![role] = s ]
    /\ socket_role' = [ socket_role EXCEPT ![s] = role ]
    /\ event' = Event("register", s, role, Undefined, Undefined, NoPayload)
    /\ emitted' = << >>
    /\ UNCHANGED << activeCallSessions, socket_sessionId, connection, now >>

\* Call with lines 81-83 moved out of the `if (users[to])` block.
Call_sessionOutsideIf(s, from, to, offer) ==
    /\ connection[s] = "open"
    /\ event' = Event("call", s, Undefined, from, to, offer)
    /\ UNCHANGED << users, socket_role, connection >>
    /\ \E t \in now..(IF now < MaxClock THEN now + 1 ELSE now) :
         LET sessionId == sessionIdOf(from, to, t) IN
         /\ \/ sessionId \in DOMAIN activeCallSessions
            \/ Cardinality(DOMAIN activeCallSessions) < MaxSessions
         /\ now' = t
         /\ activeCallSessions' =
               [ id \in DOMAIN activeCallSessions \cup { sessionId } |->
                   IF id = sessionId
                   THEN [ from |-> from, to |-> to, status |-> "calling" ]
                   ELSE activeCallSessions[id] ]
         /\ socket_sessionId' = [ socket_sessionId EXCEPT ![s] = sessionId ]
         /\ emitted' =
               IF users[to] # NoSocket
               THEN << Emit(users[to], "incoming-call",
                            [ from |-> from, offer |-> offer ]),
                       Emit(users[to], "call-session-info",
                            [ sessionId |-> sessionId ]) >>
               ELSE << >>

\* socket.on('call').  t is the value Date.now() returns at line 81; the first
\* conjunct under it keeps the table within MaxSessions records.
Call(s, from, to, offer) ==
    /\ connection[s] = "open"
    /\ event' = Event("call", s, Undefined, from, to, offer)
    /\ UNCHANGED << users, socket_role, connection >>
    /\ IF users[to] # NoSocket
       THEN \E t \in now..(IF now < MaxClock THEN now + 1 ELSE now) :
              LET sessionId == sessionIdOf(from, to, t) IN
              /\ \/ sessionId \in DOMAIN activeCallSessions
                 \/ Cardinality(DOMAIN activeCallSessions) < MaxSessions
              /\ now' = t
              /\ activeCallSessions' =
                    [ id \in DOMAIN activeCallSessions \cup { sessionId } |->
                        IF id = sessionId
                        THEN [ from |-> from, to |-> to, status |-> "calling" ]
                        ELSE activeCallSessions[id] ]
              /\ socket_sessionId' = [ socket_sessionId EXCEPT ![s] = sessionId ]
              /\ emitted' =
                    << Emit(users[to], "incoming-call",
                            [ from |-> from, offer |-> offer ]),
                       Emit(users[to], "call-session-info",
                            [ sessionId |-> sessionId ]) >>
       ELSE /\ emitted' = << >>
            /\ UNCHANGED << activeCallSessions, socket_sessionId, now >>

\* Answer that relays only for a sender with a session in the table.
Answer_relayOnlyWithSession(s, from, to, answer) ==
    /\ connection[s] = "open"
    /\ event' = Event("answer", s, Undefined, from, to, answer)
    /\ UNCHANGED << users, socket_role, socket_sessionId, connection, now >>
    /\ IF users[to] # NoSocket /\ hasActiveSession(s)
       THEN /\ emitted' = << Emit(users[to], "call-answered",
                                  [ from |-> from, answer |-> answer ]) >>
            /\ activeCallSessions' =
                  [ activeCallSessions EXCEPT
                      ![socket_sessionId[s]].status = "connected" ]
       ELSE /\ emitted' = << >>
            /\ UNCHANGED activeCallSessions

\* socket.on('answer')
Answer(s, from, to, answer) ==
    /\ connection[s] = "open"
    /\ event' = Event("answer", s, Undefined, from, to, answer)
    /\ UNCHANGED << users, socket_role, socket_sessionId, connection, now >>
    /\ IF users[to] # NoSocket
       THEN /\ emitted' = << Emit(users[to], "call-answered",
                                  [ from |-> from, answer |-> answer ]) >>
            /\ activeCallSessions' =
                  IF hasActiveSession(s)
                  THEN [ activeCallSessions EXCEPT
                           ![socket_sessionId[s]].status = "connected" ]
                  ELSE activeCallSessions
       ELSE /\ emitted' = << >>
            /\ UNCHANGED activeCallSessions

\* IceCandidate that relays only for a sender with a session in the table.
IceCandidate_needsSession(s, from, to, candidate) ==
    /\ connection[s] = "open"
    /\ event' = Event("ice-candidate", s, Undefined, from, to, candidate)
    /\ emitted' =
          IF users[to] # NoSocket /\ hasActiveSession(s)
          THEN << Emit(users[to], "ice-candidate",
                       [ from |-> from, candidate |-> candidate ]) >>
          ELSE << >>
    /\ UNCHANGED << users, activeCallSessions, socket_role, socket_sessionId,
                    connection, now >>

\* socket.on('ice-candidate')
IceCandidate(s, from, to, candidate) ==
    /\ connection[s] = "open"
    /\ event' = Event("ice-candidate", s, Undefined, from, to, candidate)
    /\ emitted' =
          IF users[to] # NoSocket
          THEN << Emit(users[to], "ice-candidate",
                       [ from |-> from, candidate |-> candidate ]) >>
          ELSE << >>
    /\ UNCHANGED << users, activeCallSessions, socket_role, socket_sessionId,
                    connection, now >>

\* EndCall that deletes every session naming `from` rather than the linked one.
EndCall_deletesAllOfSender(s, from, to) ==
    /\ connection[s] = "open"
    /\ event' = Event("end-call", s, Undefined, from, to, NoPayload)
    /\ UNCHANGED << users, socket_role, socket_sessionId, connection, now >>
    /\ IF users[to] # NoSocket
       THEN /\ emitted' = << Emit(users[to], "call-ended", [ from |-> from ]) >>
            /\ activeCallSessions' =
                  without(activeCallSessions,
                          { id \in DOMAIN activeCallSessions :
                              \/ activeCallSessions[id].from = from
                              \/ activeCallSessions[id].to = from })
       ELSE /\ emitted' = << >>
            /\ UNCHANGED activeCallSessions

\* socket.on('end-call')
EndCall(s, from, to) ==
    /\ connection[s] = "open"
    /\ event' = Event("end-call", s, Undefined, from, to, NoPayload)
    /\ UNCHANGED << users, socket_role, socket_sessionId, connection, now >>
    /\ IF users[to] # NoSocket
       THEN /\ emitted' = << Emit(users[to], "call-ended", [ from |-> from ]) >>
            /\ activeCallSessions' =
                  IF hasActiveSession(s)
                  THEN without(activeCallSessions, { socket_sessionId[s] })
                  ELSE activeCallSessions
       ELSE /\ emitted' = << >>
            /\ UNCHANGED activeCallSessions

\* lines 179-180 and 216-217: the signal goes to users[from] and users[to] of
\* the request, each only when set.
recordingSignals(name, from, to) ==
    (IF users[from] # NoSocket
     THEN << Emit(users[from], name, [ from |-> from ]) >> ELSE << >>)
    \o
    (IF users[to] # NoSocket
     THEN << Emit(users[to], name, [ from |-> from ]) >> ELSE << >>)

\* StartRecordingRequest with line 149 testing `!sessionId` alone.
StartRecordingRequest_linkOnly(s, from, to) ==
    /\ connection[s] = "open"
    /\ event' = Event("start-recording-request", s, Undefined, from, to, NoPayload)
    /\ emitted' =
          IF socket_sessionId[s] = Undefined THEN << >>
          ELSE recordingSignals("start-recording-signal", from, to)
    /\ UNCHANGED << users, activeCallSessions, socket_role, socket_sessionId,
                    connection, now >>

\* socket.on('start-recording-request')
StartRecordingRequest(s, from, to) ==
    /\ connection[s] = "open"
    /\ event' = Event("start-recording-request", s, Undefined, from, to, NoPayload)
    /\ emitted' =
          IF ~hasActiveSession(s) THEN << >>
          ELSE recordingSignals("start-recording-signal", from, to)
    /\ UNCHANGED << users, activeCallSessions, socket_role, socket_sessionId,
                    connection, now >>

\* socket.on('stop-recording-request')
StopRecordingRequest(s, from, to) ==
    /\ connection[s] = "open"
    /\ event' = Event("stop-recording-request", s, Undefined, from, to, NoPayload)
    /\ emitted' =
          IF ~hasActiveSession(s) THEN << >>
          ELSE recordingSignals("stop-recording-signal", from, to)
    /\ UNCHANGED << users, activeCallSessions, socket_role, socket_sessionId,
                    connection, now >>

\* The loop of lines 229-236 testing `session.from` alone.
sessionsOf_initiatorOnly(role) ==
    { id \in DOMAIN activeCallSessions : activeCallSessions[id].from = role }

\* The sessions the loop of lines 229-236 deletes for `role`.
sessionsOf(role) ==
    { id \in DOMAIN activeCallSessions :
        \/ activeCallSessions[id].from = role
        \/ activeCallSessions[id].to = role }

\* Disconnect with line 225 testing `socket.role` alone.
Disconnect_unguarded(s) ==
    /\ connection[s] = "open"
    /\ connection' = [ connection EXCEPT ![s] = "closed" ]
    /\ event' = Event("disconnect", s, Undefined, Undefined, Undefined, NoPayload)
    /\ emitted' = << >>
    /\ UNCHANGED << socket_role, socket_sessionId, now >>
    /\ IF socket_role[s] # Undefined
       THEN /\ users' = [ users EXCEPT ![socket_role[s]] = NoSocket ]
            /\ activeCallSessions' =
                  without(activeCallSessions, sessionsOf(socket_role[s]))
       ELSE UNCHANGED << users, activeCallSessions >>

\* socket.on('disconnect')
Disconnect(s) ==
    /\ connection[s] = "open"
    /\ connection' = [ connection EXCEPT ![s] = "closed" ]
    /\ event' = Event("disconnect", s, Undefined, Undefined, Undefined, NoPayload)
    /\ emitted' = << >>
    /\ UNCHANGED << socket_role, socket_sessionId, now >>
    /\ IF socket_role[s] # Undefined /\ users[socket_role[s]] = s
       THEN /\ users' = [ users EXCEPT ![socket_role[s]] = NoSocket ]
            /\ activeCallSessions' =
                  without(activeCallSessions, sessionsOf(socket_role[s]))
       ELSE UNCHANGED << users, activeCallSessions >>

\* The history variables follow what the handler just did.
Recorded ==
    /\ allocated' =
          IF event'.type = "call" /\ emitted' # << >>
          THEN allocated \cup { socket_sessionId'[event'.socket] }
          ELSE allocated
    /\ connectedIds' =
          connectedIds \cup
          { id \in DOMAIN activeCallSessions' :
              activeCallSessions'[id].status = "connected" }
    /\ repeat' = (event' = event)
    /\ Cardinality(allocated') <= MaxAllocated

\* The history variables are left alone.
Frozen == UNCHANGED << allocated, connectedIds, repeat >>

\* One event is taken off the event loop and its handler runs to completion.
Next ==
    \/ \E s \in SocketIds : Connection(s) /\ Frozen
    \/ \E s \in SocketIds, role \in Roles : Register(s, role) /\ Frozen
    \/ \E s \in SocketIds, from \in Roles, to \in Roles, offer \in Payloads :
          Call(s, from, to, offer) /\ Frozen
    \/ \E s \in SocketIds, from \in Roles, to \in Roles, answer \in Payloads :
          Answer(s, from, to, answer) /\ Frozen
    \/ \E s \in SocketIds, from \in Roles, to \in Roles, candidate \in Payloads :
          IceCandidate(s, from, to, candidate) /\ Frozen
    \/ \E s \in SocketIds, from \in Roles, to \in Roles :
          EndCall(s, from, to) /\ Frozen
    \/ \E s \in SocketIds, from \in Roles, to \in Roles :
          StartRecordingRequest(s, from, to) /\ Frozen
    \/ \E s \in SocketIds, from \in Roles, to \in Roles :
          StopRecordingRequest(s, from, to) /\ Frozen
    \/ \E s \in SocketIds : Disconnect(s) /\ Frozen

\* The same steps, with the history kept.
NextHistory ==
    \/ \E s \in SocketIds : Connection(s) /\ Recorded
    \/ \E s \in SocketIds, role \in Roles : Register(s, role) /\ Recorded
    \/ \E s \in SocketIds, from \in Roles, to \in Roles, offer \in Payloads :
          Call(s, from, to, offer) /\ Recorded
    \/ \E s \in SocketIds, from \in Roles, to \in Roles, answer \in Payloads :
          Answer(s, from, to, answer) /\ Recorded
    \/ \E s \in SocketIds, from \in Roles, to \in Roles, candidate \in Payloads :
          IceCandidate(s, from, to, candidate) /\ Recorded
    \/ \E s \in SocketIds, from \in Roles, to \in Roles :
          EndCall(s, from, to) /\ Recorded
    \/ \E s \in SocketIds, from \in Roles, to \in Roles :
          StartRecordingRequest(s, from, to) /\ Recorded
    \/ \E s \in SocketIds, from \in Roles, to \in Roles :
          StopRecordingRequest(s, from, to) /\ Recorded
    \/ \E s \in SocketIds : Disconnect(s) /\ Recorded

Spec == Init /\ [][Next]_vars

SpecHistory == Init /\ [][NextHistory]_vars

\* ------------------------------------------------------------------ claims
\* Vocabulary of the claims, read off the variables alone.

\* s is the connection of identity r: the directory maps r to s, and s last
\* registered as r.
IsConnectionOf(s, r) ==
    /\ s \in SocketIds
    /\ r \in Roles
    /\ users[r] = s
    /\ socket_role[s] = r

RecordingRequests == { "start-recording-request", "stop-recording-request" }

\* C1: an answer(B, A, answer) sent from B's connection with A present, directly
\* after the call(A, B, offer) from A's connection that created session S, sets
\* S's status to connected and emits exactly one call-answered{from: B, answer}
\* to A's connection.
C1_AnswerConnectsSession ==
    [][ ( /\ event.type = "call"
          /\ emitted # << >>
          /\ IsConnectionOf(event.socket, event.from)
          /\ event'.type = "answer"
          /\ event'.from = event.to
          /\ event'.to = event.from
          /\ IsConnectionOf(event'.socket, event.to) )
        => LET S == socket_sessionId[event.socket] IN
           /\ S \in DOMAIN activeCallSessions'
           /\ activeCallSessions'[S].status = "connected"
           /\ emitted' = << Emit(users[event.from], "call-answered",
                                 [ from |-> event.to, answer |-> event'.data ]) >>
      ]_vars

\* C2: a session S created by call(A, B) from A's connection is gone from the
\* table after an end-call event sent by A's connection or by B's connection.
C2_EndCallByEitherPartyRemoves ==
    [][ \A id \in DOMAIN activeCallSessions :
          LET A == activeCallSessions[id].from
              B == activeCallSessions[id].to
          IN  ( /\ \E sA \in SocketIds :
                      IsConnectionOf(sA, A) /\ socket_sessionId[sA] = id
                /\ \E sB \in SocketIds : IsConnectionOf(sB, B)
                /\ event'.type = "end-call"
                /\ \/ /\ IsConnectionOf(event'.socket, A)
                      /\ event'.from = A /\ event'.to = B
                   \/ /\ IsConnectionOf(event'.socket, B)
                      /\ event'.from = B /\ event'.to = A )
              => id \notin DOMAIN activeCallSessions'
      ]_vars

\* C3: once the disconnect of a connection that registered as identity X has
\* been processed, no session of the table has X as initiator or as target.
C3_DisconnectRemovesSessions ==
    ( /\ event.type = "disconnect"
      /\ socket_role[event.socket] # Undefined )
    => \A id \in DOMAIN activeCallSessions :
          /\ activeCallSessions[id].from # socket_role[event.socket]
          /\ activeCallSessions[id].to # socket_role[event.socket]

\* C4: a call(A, B, offer) whose target B is present adds exactly one new record
\* to the table, with status calling, initiator A and target B, leaves the
\* other records as they were, and emits exactly incoming-call{from: A, offer}
\* and call-session-info{sessionId} to B's connection.
C4_CallCreatesOneSession ==
    [][ ( /\ event'.type = "call"
          /\ users[event'.to] # NoSocket )
        => LET new == (DOMAIN activeCallSessions') \ (DOMAIN activeCallSessions)
           IN  /\ Cardinality(new) = 1
               /\ \A id \in new :
                     activeCallSessions'[id] =
                       [ from |-> event'.from, to |-> event'.to,
                         status |-> "calling" ]
               /\ \A id \in DOMAIN activeCallSessions :
                     /\ id \in DOMAIN activeCallSessions'
                     /\ activeCallSessions'[id] = activeCallSessions[id]
               /\ Len(emitted') = 2
               /\ emitted'[1] = Emit(users[event'.to], "incoming-call",
                                     [ from |-> event'.from,
                                       offer |-> event'.data ])
               /\ emitted'[2].room = users[event'.to]
               /\ emitted'[2].name = "call-session-info"
               /\ emitted'[2].data.sessionId \in new
      ]_vars

\* C5: a call(A, B, offer) whose target B has no entry in the directory emits
\* nothing, leaves the session table as it was and leaves every connection's
\* session link as it was.
C5_CallToAbsentTargetIsDropped ==
    [][ ( /\ event'.type = "call"
          /\ users[event'.to] = NoSocket )
        => /\ emitted' = << >>
           /\ activeCallSessions' = activeCallSessions
           /\ socket_sessionId' = socket_sessionId
      ]_vars

\* A call to an absent target has just been dropped, sent by a connection whose
\* session link names a live session.
C5_Witness ==
    /\ event.type = "call"
    /\ users[event.to] = NoSocket
    /\ socket_sessionId[event.socket] \in DOMAIN activeCallSessions

\* C6: every call event that creates a session allocates a session id that no
\* earlier call of the process has allocated.
C6_SessionIdsAreFresh ==
    [][ ( /\ event'.type = "call"
          /\ emitted' # << >> )
        => socket_sessionId'[event'.socket] \notin allocated
      ]_vars

\* C7: the status of a session id only ever changes from calling to connected,
\* and an id that has had status connected is never seen with status calling.
C7_StatusOnlyMovesForward ==
    [][ /\ \A id \in (DOMAIN activeCallSessions) \cap (DOMAIN activeCallSessions') :
              activeCallSessions'[id].status # activeCallSessions[id].status
              => /\ activeCallSessions[id].status = "calling"
                 /\ activeCallSessions'[id].status = "connected"
        /\ \A id \in connectedIds \cap (DOMAIN activeCallSessions') :
              activeCallSessions'[id].status = "connected"
      ]_vars

\* C8: the second of two consecutive end-call(from, to) events from the same
\* connection emits no message and changes neither the session table nor the
\* directory.
C8_SecondEndCallIsNoOp ==
    [][ ( /\ event'.type = "end-call"
          /\ repeat' )
        => /\ emitted' = << >>
           /\ activeCallSessions' = activeCallSessions
           /\ users' = users
      ]_vars

\* C9: a start- or stop-recording-request from a connection that has no session
\* link, or whose linked session is not in the table, emits nothing and changes
\* no state.
C9_RecordingWithoutSessionIsNoOp ==
    [][ ( /\ event'.type \in RecordingRequests
          /\ socket_sessionId[event'.socket] \notin DOMAIN activeCallSessions )
        => /\ emitted' = << >>
           /\ UNCHANGED << users, activeCallSessions, socket_role,
                           socket_sessionId, connection, now >>
      ]_vars

\* A recording request has just been rejected although both identities it names
\* are present: the sender's link names a session that was removed.
C9_Witness ==
    /\ event.type \in RecordingRequests
    /\ socket_sessionId[event.socket] # Undefined
    /\ socket_sessionId[event.socket] \notin DOMAIN activeCallSessions
    /\ users[event.from] # NoSocket
    /\ users[event.to] # NoSocket
    /\ emitted = << >>

\* C10: when the sender's linked session S is in the table, a recording request
\* emits its signal to the connection of each participant of S that is present,
\* and to no other connection.
C10_RecordingSignalsGoToParticipants ==
    [][ ( /\ event'.type \in RecordingRequests
          /\ socket_sessionId[event'.socket] \in DOMAIN activeCallSessions )
        => LET S == activeCallSessions[socket_sessionId[event'.socket]]
               signal == IF event'.type = "start-recording-request"
                         THEN "start-recording-signal"
                         ELSE "stop-recording-signal"
               rooms == { users[S.from], users[S.to] } \ { NoSocket }
           IN  /\ \A i \in 1..Len(emitted') :
                     /\ emitted'[i].name = signal
                     /\ emitted'[i].room \in rooms
               /\ \A r \in rooms :
                     \E i \in 1..Len(emitted') : emitted'[i].room = r
      ]_vars

\* C11: the directory entry of an identity A is the connection of the latest
\* register(A, .): a register(A, conn) sets the entry of A to conn, whatever it
\* was, and touches no other entry; an event that is neither a register nor a
\* disconnect changes no entry; a disconnect changes at most the entry of the
\* disconnecting connection's own identity.
C11_LastRegistrationWins ==
    [][ /\ event'.type = "register"
           => /\ users'[event'.role] = event'.socket
              /\ \A r \in Roles \ { event'.role } : users'[r] = users[r]
        /\ event'.type \notin { "register", "disconnect" }
           => users' = users
        /\ event'.type = "disconnect"
           => \A r \in Roles \ { socket_role[event'.socket] } :
                 users'[r] = users[r]
      ]_vars

\* A register(A, connB) has just replaced the entry of A, which an earlier
\* register(A, connA) of another connection had set.
C11_Witness ==
    /\ event.type = "register"
    /\ users[event.role] = event.socket
    /\ \E q \in SocketIds \ { event.socket } : socket_role[q] = event.role

\* C12: a disconnect removes the directory entry of an identity only if that
\* entry is the disconnecting connection: every entry that maps to another
\* connection (a newer registration of the same identity included) is left as
\* it was.
C12_DisconnectKeepsNewerRegistration ==
    [][ event'.type = "disconnect"
        => \A r \in Roles :
              users[r] # event'.socket => users'[r] = users[r]
      ]_vars

\* connOld, which registered as A, has just disconnected while the directory
\* maps A to another connection, and still does.
C12_Witness ==
    /\ event.type = "disconnect"
    /\ socket_role[event.socket] # Undefined
    /\ users[socket_role[event.socket]] \in SocketIds \ { event.socket }

\* C13: an ice-candidate(from, to, candidate) emits exactly one
\* ice-candidate{from, candidate} to the target's connection when the target is
\* present and nothing otherwise, and leaves the session table, every session
\* link and the directory unchanged.
C13_IceCandidateIsPureRelay ==
    [][ event'.type = "ice-candidate"
        => /\ emitted' =
                IF users[event'.to] # NoSocket
                THEN << Emit(users[event'.to], "ice-candidate",
                             [ from |-> event'.from,
                               candidate |-> event'.data ]) >>
                ELSE << >>
           /\ UNCHANGED << activeCallSessions, socket_sessionId, users >>
      ]_vars

\* A candidate has just been relayed for a connection that never made a call,
\* with no session in the table.
C13_Witness ==
    /\ event.type = "ice-candidate"
    /\ Len(emitted) = 1
    /\ socket_sessionId[event.socket] = Undefined
    /\ activeCallSessions = << >>

\* C14: after an end-call the session linked to the sending connection, if
\* any, is no longer in the table, whether or not the target is present.
C14_EndCallRemovesSendersSession ==
    [][ event'.type = "end-call"
        => socket_sessionId[event'.socket] \notin DOMAIN activeCallSessions'
      ]_vars

\* C15: an answer from a connection with no session link, or with a link to a
\* session that is no longer in the table, still emits exactly one
\* call-answered{from, answer} to the target's connection when the target is
\* present, and changes no session record.
C15_AnswerWithoutSessionOnlyRelays ==
    [][ ( /\ event'.type = "answer"
          /\ socket_sessionId[event'.socket] \notin DOMAIN activeCallSessions
          /\ users[event'.to] # NoSocket )
        => /\ emitted' = << Emit(users[event'.to], "call-answered",
                                 [ from |-> event'.from,
                                   answer |-> event'.data ]) >>
           /\ activeCallSessions' = activeCallSessions
      ]_vars

\* An answer from a connection whose link names no session of the table has
\* just been relayed, while the table holds a session (of another connection).
C15_Witness ==
    /\ event.type = "answer"
    /\ socket_sessionId[event.socket] \notin DOMAIN activeCallSessions
    /\ Len(emitted) = 1
    /\ emitted[1].name = "call-answered"
    /\ activeCallSessions # << >>

\* C16: every directory entry refers to a connection that has not
\* disconnected.
C16_NoStaleRouting ==
    \A r \in Roles :
        users[r] # NoSocket => connection[users[r]] = "open"

\* C17: in a state in which every connection that ever connected has
\* disconnected, the session table is empty.
C17_NoOrphanedSessions ==
    ( /\ \E s \in SocketIds : connection[s] = "closed"
      /\ \A s \in SocketIds : connection[s] # "open" )
    => activeCallSessions = << >>

\* C18 as stated: an end-call(from, to) deletes at most one session, and only
\* a session whose initiator and target are the event's from and to.
C18_EndCallDeletesOnlyNamedPair ==
    [][ event'.type = "end-call"
        => /\ Cardinality(DOMAIN activeCallSessions
                            \ DOMAIN activeCallSessions') <= 1
           /\ \A id \in DOMAIN activeCallSessions \ DOMAIN activeCallSessions' :
                 /\ activeCallSessions[id].from = event'.from
                 /\ activeCallSessions[id].to = event'.to
      ]_vars

\* C18 amended: an end-call deletes at most one session, and only the session
\* that the sending connection's session link names, whatever its initiator
\* and target are; every other session is left in the table as it was.
C18_EndCallDeletesOnlyLinkedSession ==
    [][ event'.type = "end-call"
        => /\ DOMAIN activeCallSessions \ DOMAIN activeCallSessions'
                 \subseteq { socket_sessionId[event'.socket] }
           /\ \A id \in DOMAIN activeCallSessions' :
                 /\ id \in DOMAIN activeCallSessions
                 /\ activeCallSessions'[id] = activeCallSessions[id]
      ]_vars

\* An end-call from a linked connection has been relayed, its linked session
\* is gone, and a session of another connection is still in the table.
C18_Witness ==
    /\ event.type = "end-call"
    /\ Len(emitted) = 1
    /\ socket_sessionId[event.socket] # Undefined
    /\ socket_sessionId[event.socket] \notin DOMAIN activeCallSessions
    /\ activeCallSessions # << >>

\* C19: in every state the target of every session record has a directory
\* entry; a directory entry is removed only by a disconnect, and that step
\* leaves no session naming the identity as initiator or target.
C19_SessionTargetsAreRegistered ==
    /\ [] ( \A id \in DOMAIN activeCallSessions :
               users[activeCallSessions[id].to] # NoSocket )
    /\ [][ \A r \in Roles :
              ( users[r] # NoSocket /\ users'[r] = NoSocket )
              => /\ event'.type = "disconnect"
                 /\ \A id \in DOMAIN activeCallSessions' :
                       /\ activeCallSessions'[id].from # r
                       /\ activeCallSessions'[id].to # r
         ]_vars

\* A disconnect has just removed the entry of its identity while a session
\* between other identities stays in the table.
C19_Witness ==
    /\ event.type = "disconnect"
    /\ socket_role[event.socket] # Undefined
    /\ users[socket_role[event.socket]] = NoSocket
    /\ activeCallSessions # << >>
====
